---- MODULE Spec2Model ----
(***************************************************************************)
(* Model of packages/imports/src/utils.ts of resolver-engine:              *)
(*   findImports, gatherDepenencyTree (dfs), gatherSources,                *)
(*   gatherSourcesAndCanonizeImports (canonizeFile, stripNodes).           *)
(*                                                                         *)
(* A JavaScript string is modelled as the sequence of its characters, each *)
(* character a one-character TLA+ string, so that String.replace, the      *)
(* import regular expression and Node's posix path functions act on the    *)
(* same values as in the program.                                          *)
(***************************************************************************)
EXTENDS Integers, Sequences, FiniteSets, TLC

(***************************************************************************)
(* Strings                                                                 *)
(***************************************************************************)
Max(S) == CHOOSE x \in S : \A y \in S : y <= x

Min(S) == CHOOSE x \in S : \A y \in S : x <= y

\* text.slice(i - 1, j) for 1-based inclusive positions, clamped to the text
Slice(t, i, j) ==
  LET a == IF i < 1 THEN 1 ELSE i
      b == IF j > Len(t) THEN Len(t) ELSE j
  IN  IF b < a THEN << >> ELSE SubSeq(t, a, b)

\* the 1-based positions at which pat occurs in t
Occurrences(t, pat) ==
  { i \in 1..(Len(t) - Len(pat) + 1) : Slice(t, i, i + Len(pat) - 1) = pat }

\* String.prototype.replace(pattern: string, replacement: string): only the
\* FIRST occurrence of the pattern is replaced (no "$" in any replacement here)
StringReplace(t, pat, rep) ==
  IF Occurrences(t, pat) = {} THEN t
  ELSE LET i == Min(Occurrences(t, pat))
       IN  Slice(t, 1, i - 1) \o rep \o Slice(t, i + Len(pat), Len(t))

(***************************************************************************)
(* Node's posix path module, as used through `import path from "path"`     *)
(***************************************************************************)
RECURSIVE SplitFrom(_, _, _)
\* the "/"-separated segments of p from position i on, cur being the segment
\* read so far; empty segments are kept
SplitFrom(p, i, cur) ==
  IF i > Len(p) THEN << cur >>
  ELSE IF p[i] = "/" THEN << cur >> \o SplitFrom(p, i + 1, << >>)
  ELSE SplitFrom(p, i + 1, Append(cur, p[i]))

Segments(p) == SelectSeq(SplitFrom(p, 1, << >>), LAMBDA s : s # << >>)

DotDot == << ".", "." >>

RECURSIVE NormalizeSegments(_, _, _)
\* normalizeString: "." is dropped, ".." removes the segment before it, or is
\* kept when there is none and allowAboveRoot
NormalizeSegments(segs, stack, allowAboveRoot) ==
  IF segs = << >> THEN stack
  ELSE LET s == Head(segs)
           next == IF s = << "." >> THEN stack
                   ELSE IF s = DotDot
                        THEN IF stack # << >> /\ stack[Len(stack)] # DotDot
                             THEN SubSeq(stack, 1, Len(stack) - 1)
                             ELSE IF allowAboveRoot THEN Append(stack, s)
                             ELSE stack
                        ELSE Append(stack, s)
       IN  NormalizeSegments(Tail(segs), next, allowAboveRoot)

RECURSIVE JoinSegments(_)
JoinSegments(segs) ==
  IF segs = << >> THEN << >>
  ELSE IF Len(segs) = 1 THEN segs[1]
  ELSE segs[1] \o << "/" >> \o JoinSegments(Tail(segs))

normalizeString(p, allowAboveRoot) ==
  JoinSegments(NormalizeSegments(Segments(p), << >>, allowAboveRoot))

isAbsolute(p) == Len(p) > 0 /\ p[1] = "/"

\* path.normalize
normalize(p) ==
  IF Len(p) = 0 THEN << "." >>
  ELSE LET abs == isAbsolute(p)
           trailing == p[Len(p)] = "/"
           body == normalizeString(p, ~abs)
       IN  IF body = << >>
           THEN IF abs THEN << "/" >>
                ELSE IF trailing THEN << ".", "/" >> ELSE << "." >>
           ELSE (IF abs THEN << "/" >> ELSE << >>) \o body
                \o (IF trailing THEN << "/" >> ELSE << >>)

\* path.join(a, b)
join(a, b) ==
  IF Len(a) = 0 /\ Len(b) = 0 THEN << "." >>
  ELSE IF Len(a) = 0 THEN normalize(b)
  ELSE IF Len(b) = 0 THEN normalize(a)
  ELSE normalize(a \o << "/" >> \o b)

\* path.dirname
dirname(p) ==
  IF Len(p) = 0 THEN << "." >>
  ELSE LET hasRoot == p[1] = "/"
           \* positions >= 2 holding a "/" that is followed by a non-"/"
           cuts == { i \in 2..Len(p) :
                       /\ p[i] = "/"
                       /\ \E j \in (i + 1)..Len(p) : p[j] # "/" }
       IN  IF cuts = {} THEN (IF hasRoot THEN << "/" >> ELSE << "." >>)
           ELSE IF hasRoot /\ Max(cuts) = 2 THEN << "/", "/" >>
           ELSE Slice(p, 1, Max(cuts) - 1)

\* process.cwd(), used by path.resolve when no argument is absolute
ProcessCwd == << "/", "w" >>

\* path.resolve(from, to)
resolve(from, to) ==
  LET joined == IF isAbsolute(to) THEN to
                ELSE IF Len(to) = 0
                     THEN (IF isAbsolute(from) THEN from
                           ELSE IF Len(from) = 0 THEN ProcessCwd
                           ELSE ProcessCwd \o << "/" >> \o from)
                ELSE IF isAbsolute(from) THEN from \o << "/" >> \o to
                ELSE IF Len(from) = 0 THEN ProcessCwd \o << "/" >> \o to
                ELSE ProcessCwd \o << "/" >> \o from \o << "/" >> \o to
      body == normalizeString(joined, FALSE)
  IN  << "/" >> \o body

(***************************************************************************)
(* findImports: the regular expression of utils.ts line 13, matched the     *)
(* way a backtracking engine matches it: alternatives left to right, every *)
(* quantifier greedy.  Its shape is                                        *)
(*   import WS+ ( QUOTED ( ; | WS+ as WS+ [^;]* ; )                        *)
(*              | .+ from WS+ QUOTED-ON-ONE-LINE ; )                       *)
(***************************************************************************)
WhiteSpace == { " ", "\t", "\n", "\r" }

LineTerminator == { "\n", "\r" }

DQuote == "\""

SQuote == "'"

kwImport == << "i", "m", "p", "o", "r", "t" >>

kwFrom == << "f", "r", "o", "m" >>

kwAs == << "a", "s" >>

At(t, i) == IF i >= 1 /\ i <= Len(t) THEN t[i] ELSE "<eof>"

Has(t, i, word) == Slice(t, i, i + Len(word) - 1) = word /\ i >= 1

\* length of the run of white space that starts at position i
SpaceRun(t, i) ==
  Max({ 0 } \cup { k \in 1..(Len(t) - i + 1) :
                     \A j \in i..(i + k - 1) : t[j] \in WhiteSpace })

NoMatch == [ok |-> FALSE, cap |-> << >>, end |-> 0]

\* the statement end (a semicolon, or WS+ as WS+ [^;]* and a semicolon) at
\* position j: the position of the closing semicolon, or 0
StatementEnd(t, j) ==
  IF At(t, j) = ";" THEN j
  ELSE LET k == SpaceRun(t, j)
           a == j + k
           semis == { e \in (a + 3)..Len(t) : t[e] = ";" }
       IN  IF k >= 1 /\ Has(t, a, kwAs) /\ At(t, a + 2) \in WhiteSpace
              /\ semis # {}
           THEN Min(semis)
           ELSE 0

\* first alternative at position p: a quoted literal without semicolon, then
\* the statement end
QuotedFirst(t, p) ==
  IF At(t, p) \notin { DQuote, SQuote } THEN NoMatch
  ELSE LET q == t[p]
           closes == { e \in (p + 1)..Len(t) :
                         /\ t[e] = q
                         /\ \A j \in (p + 1)..(e - 1) : t[j] # ";"
                         /\ StatementEnd(t, e + 1) # 0 }
       IN  IF closes = {} THEN NoMatch
           ELSE LET e == Max(closes)
                IN  [ok |-> TRUE, cap |-> Slice(t, p + 1, e - 1),
                     end |-> StatementEnd(t, e + 1)]

\* from WS+ QUOTED-ON-ONE-LINE semicolon, with the word from at position f
FromClause(t, f) ==
  LET g == f + 4 + SpaceRun(t, f + 4)
      q == At(t, g)
      closes == { e \in (g + 1)..Len(t) :
                    /\ t[e] = q
                    /\ At(t, e + 1) = ";"
                    /\ \A j \in (g + 1)..(e - 1) : t[j] \notin LineTerminator }
  IN  IF Has(t, f, kwFrom) /\ SpaceRun(t, f + 4) >= 1
         /\ q \in { DQuote, SQuote } /\ closes # {}
      THEN LET e == Max(closes)
           IN  [ok |-> TRUE, cap |-> Slice(t, g + 1, e - 1), end |-> e + 1]
      ELSE NoMatch

\* second alternative at position p: .+ (one line) and then the from clause
FromForm(t, p) ==
  LET froms == { f \in (p + 1)..Len(t) :
                   /\ \A j \in p..(f - 1) : t[j] \notin LineTerminator
                   /\ FromClause(t, f).ok }
  IN  IF froms = {} THEN NoMatch ELSE FromClause(t, Max(froms))

\* what follows import WS+ when WS+ took the k characters from position w on
AfterImport(t, w, k) ==
  IF QuotedFirst(t, w + k).ok THEN QuotedFirst(t, w + k) ELSE FromForm(t, w + k)

\* one attempt of the whole expression at position s
MatchAt(t, s) ==
  IF ~Has(t, s, kwImport) THEN NoMatch
  ELSE LET w == s + 6
           good == { k \in 1..SpaceRun(t, w) : AfterImport(t, w, k).ok }
       IN  IF good = {} THEN NoMatch ELSE AfterImport(t, w, Max(good))

RECURSIVE ExecFrom(_, _)
\* the `while ((match = regex.exec(data.source)))` loop, lastIndex = from - 1
ExecFrom(t, from) ==
  LET starts == { s \in from..Len(t) : MatchAt(t, s).ok }
  IN  IF starts = {} THEN << >>
      ELSE LET m == MatchAt(t, Min(starts))
           IN  << m.cap >> \o ExecFrom(t, m.end + 1)

findImports(data) == ExecFrom(data.source, 1)

(***************************************************************************)
(* The files the resolver can see.  A world is a file system, the working  *)
(* directory passed to the entry point, and the references a caller may    *)
(* pass as roots.                                                          *)
(***************************************************************************)
ImportStmt(lit) == kwImport \o << " ", DQuote >> \o lit \o << DQuote, ";" >>

File(url, source, provider) ==
  [url |-> url, source |-> source, provider |-> provider]

\* /w/a imports ./b and /w/b imports ./a
CycleWorld ==
  [workingDir |-> << "/", "w" >>,
   rootRefs |-> { << "a" >>, << "b" >> },
   files |-> { File(<< "/", "w", "/", "a" >>, ImportStmt(<< ".", "/", "b" >>), "fs"),
               File(<< "/", "w", "/", "b" >>, ImportStmt(<< ".", "/", "a" >>), "fs") }]

\* /w/a imports ./f then ./g, /w/b imports ./f; f and g import nothing
SharedWorld ==
  [workingDir |-> << "/", "w" >>,
   rootRefs |-> { << "a" >>, << "b" >> },
   files |-> { File(<< "/", "w", "/", "a" >>,
                    ImportStmt(<< ".", "/", "f" >>) \o << "\n" >>
                      \o ImportStmt(<< ".", "/", "g" >>), "fs"),
               File(<< "/", "w", "/", "b" >>, ImportStmt(<< ".", "/", "f" >>), "fs"),
               File(<< "/", "w", "/", "f" >>, << "x" >>, "fs"),
               File(<< "/", "w", "/", "g" >>, << >>, "fs") }]

\* /w/a imports ./f and then ./m, which does not exist; /w/b imports ./f
MissingWorld ==
  [workingDir |-> << "/", "w" >>,
   rootRefs |-> { << "a" >>, << "b" >> },
   files |-> { File(<< "/", "w", "/", "a" >>,
                    ImportStmt(<< ".", "/", "f" >>) \o ImportStmt(<< ".", "/", "m" >>),
                    "fs"),
               File(<< "/", "w", "/", "b" >>, ImportStmt(<< ".", "/", "f" >>), "fs"),
               File(<< "/", "w", "/", "f" >>, << >>, "fs") }]

\* /w/a/b imports ./c and p/d; p/d is found in the package directory /n
RelativeWorld ==
  [workingDir |-> << "/", "w" >>,
   rootRefs |-> { << "a", "/", "b" >> },
   files |-> { File(<< "/", "w", "/", "a", "/", "b" >>,
                    ImportStmt(<< ".", "/", "c" >>) \o << "\n" >>
                      \o ImportStmt(<< "p", "/", "d" >>), "fs"),
               File(<< "/", "w", "/", "a", "/", "c" >>, << "c" >>, "fs"),
               File(<< "/", "n", "/", "p", "/", "d" >>, << "d" >>, "pkg") }]

\* /w/a/b imports ./c and ./x/y; /w/a/x/y imports ./c (which is /w/a/x/c) and
\* ../c (which is /w/a/c again)
NestedWorld ==
  [workingDir |-> << "/", "w" >>,
   rootRefs |-> { << "a", "/", "b" >>, << "a", "/", "x", "/", "y" >> },
   files |-> { File(<< "/", "w", "/", "a", "/", "b" >>,
                    ImportStmt(<< ".", "/", "c" >>)
                      \o ImportStmt(<< ".", "/", "x", "/", "y" >>), "fs"),
               File(<< "/", "w", "/", "a", "/", "c" >>, << "1" >>, "fs"),
               File(<< "/", "w", "/", "a", "/", "x", "/", "y" >>,
                    ImportStmt(<< ".", "/", "c" >>)
                      \o ImportStmt(<< ".", ".", "/", "c" >>), "fs"),
               File(<< "/", "w", "/", "a", "/", "x", "/", "c" >>, << "2" >>, "fs") }]

\* /w/a imports the literal c twice
TwiceWorld ==
  [workingDir |-> << "/", "w" >>,
   rootRefs |-> { << "a" >> },
   files |-> { File(<< "/", "w", "/", "a" >>,
                    ImportStmt(<< "c" >>) \o ImportStmt(<< "c" >>), "fs"),
               File(<< "/", "w", "/", "c" >>, << >>, "fs") }]

Worlds ==
  << CycleWorld, SharedWorld, MissingWorld, RelativeWorld, NestedWorld, TwiceWorld >>

\* the largest number of roots passed to an entry point
MaxRoots == 2

RootLists(w) == UNION { [1..n -> Worlds[w].rootRefs] : n \in 0..MaxRoots }

(***************************************************************************)
(* The resolver (ResolverEngine of @resolver-engine/core): resolve is the  *)
(* pure computation of a canonical locator, require fetches the file.      *)
(***************************************************************************)
PackageDir == << "/", "n" >>

Exists(w, url) == \E f \in Worlds[w].files : f.url = url

FileAt(w, url) == CHOOSE f \in Worlds[w].files : f.url = url

\* resolver.resolve(uri, cwd)
ResolverResolve(w, uri, cwd) ==
  IF Exists(w, resolve(cwd, uri)) THEN resolve(cwd, uri)
  ELSE IF At(uri, 1) \notin { ".", "/" } /\ Exists(w, join(PackageDir, uri))
       THEN join(PackageDir, uri)
  ELSE resolve(cwd, uri)

\* resolver.require(uri, cwd): the file, or the NotFound failure
ResolverRequire(w, uri, cwd) ==
  LET url == ResolverResolve(w, uri, cwd)
  IN  IF Exists(w, url)
      THEN [ok |-> TRUE, file |-> FileAt(w, url)]
      ELSE [ok |-> FALSE, error |-> [kind |-> "NotFound", uri |-> uri, cwd |-> cwd]]

(***************************************************************************)
(* State                                                                   *)
(***************************************************************************)
VARIABLES
  entry,            \* the exported or internal function that was called
  world,            \* index into Worlds: the resolver's file system
  roots,            \* the roots argument
  pc,               \* the call as its caller sees it: start, running, returned, failed
  returned,         \* the value the call returned (pc = returned)
  thrown,           \* the failure the call rejected with (pc = failed)
  result,           \* `result`, the array both traversals fill
  alreadyImported,  \* `alreadyImported`, the visited set of the running traversal
  stacks,           \* per root: the chain of dfs activations, innermost last
  status,           \* per root: running, done or rejected
  queue,            \* gatherSources: `queue`
  fileData,         \* gatherSources: the entry whose require is outstanding
  fetched,          \* canonical locator -> number of resolver.require calls for it
  errors            \* the failures resolver.require has raised, oldest first

vars == << entry, world, roots, pc, returned, thrown, result, alreadyImported,
           stacks, status, queue, fileData, fetched, errors >>

Entries == { "gatherDepenencyTree", "gatherSourcesAndCanonizeImports", "gatherSources" }

TreeEntries == { "gatherDepenencyTree", "gatherSourcesAndCanonizeImports" }

None == [none |-> TRUE]

workingDir == Worlds[world].workingDir

Init ==
  /\ entry \in Entries
  /\ world \in 1..Len(Worlds)
  /\ roots \in RootLists(world)
  /\ pc = "start"
  /\ returned = None
  /\ thrown = None
  /\ result = << >>
  /\ alreadyImported = {}
  /\ stacks = [p \in 1..Len(roots) |-> << >>]
  /\ status = [p \in 1..Len(roots) |-> "running"]
  /\ queue = << >>
  /\ fileData = None
  /\ fetched = << >>
  /\ errors = << >>

\* one more resolver.require call whose reference resolves to url
CountFetch(f, url) ==
  IF url \in DOMAIN f THEN [f EXCEPT ![url] = @ + 1]
  ELSE [u \in DOMAIN f \cup { url } |-> IF u = url THEN 1 ELSE f[u]]

FetchCount(url) == IF url \in DOMAIN fetched THEN fetched[url] ELSE 0

(***************************************************************************)
(* gatherSourcesAndCanonizeImports: canonizeFile and stripNodes            *)
(***************************************************************************)
RECURSIVE ReplaceEach(_, _)
\* file.imports.forEach(i => (file.source = file.source.replace(i.uri, i.url)))
ReplaceEach(source, imports) ==
  IF imports = << >> THEN source
  ELSE ReplaceEach(StringReplace(source, Head(imports).uri, Head(imports).url),
                   Tail(imports))

canonizeFile(file) == [file EXCEPT !.source = ReplaceEach(file.source, file.imports)]

stripNodes(nodes) ==
  [k \in 1..Len(nodes) |->
     [url |-> nodes[k].url, source |-> nodes[k].source, provider |-> nodes[k].provider]]

(***************************************************************************)
(* gatherDepenencyTree                                                     *)
(***************************************************************************)
\* a dfs activation that has called resolver.resolve and awaits it (line 54)
Activation(uri, searchCwd) ==
  [at |-> "resolve", uri |-> uri, searchCwd |-> searchCwd, url |-> << >>,
   found |-> << >>, node |-> None]

\* const fileNode = { uri: file.uri, imports: [], ...resolvedFile }
FileNode(uri, resolvedFile) ==
  [uri |-> uri, imports |-> << >>, url |-> resolvedFile.url,
   source |-> resolvedFile.source, provider |-> resolvedFile.provider]

\* the edge that keeps the reference as written in the place of the locator
\* the dfs of the import returned
PushImportAsWritten(node, importUri, importUrl) ==
  [node EXCEPT !.imports = Append(@, [uri |-> importUri, url |-> importUri])]

\* the edge put in front of the list: the order of the edges is lost
PushImportInFront(node, importUri, importUrl) ==
  [node EXCEPT !.imports = << [uri |-> importUri, url |-> importUrl] >> \o @]

\* fileNode.imports.push({ uri: importUri, url: importUrl })
PushImport(node, importUri, importUrl) ==
  [node EXCEPT !.imports = Append(@, [uri |-> importUri, url |-> importUrl])]

\* the import the for loop of line 68 takes after k of them have been pushed
NextImport(found, k) == found[k + 1]

RECURSIVE ProceedUnshifting(_, _)
\* the node put in front of result (unshift) where line 73 pushes it
ProceedUnshifting(stack, res) ==
  LET top == stack[Len(stack)]
      rest == SubSeq(stack, 1, Len(stack) - 1)
      k == Len(top.node.imports)
  IN  IF k < Len(top.found)
      THEN [stack |-> Append(stack,
                             Activation(NextImport(top.found, k), dirname(top.url))),
            result |-> res]
      ELSE LET res2 == << top.node >> \o res
           IN  IF rest = << >> THEN [stack |-> << >>, result |-> res2]
               ELSE LET up == rest[Len(rest)]
                        edge == PushImport(up.node,
                                           NextImport(up.found, Len(up.node.imports)),
                                           top.node.url)
                    IN  ProceedUnshifting([rest EXCEPT ![Len(rest)].node = edge], res2)

RECURSIVE Proceed(_, _)
\* The innermost activation of stack stands in the for loop of lines 68-71
\* with no child outstanding: it calls dfs for its next import, or it pushes
\* its node and returns, which resumes the activation that awaits it.
Proceed(stack, res) ==
  LET top == stack[Len(stack)]
      rest == SubSeq(stack, 1, Len(stack) - 1)
      k == Len(top.node.imports)
  IN  IF k < Len(top.found)
      THEN [stack |-> Append(stack,
                             Activation(NextImport(top.found, k), dirname(top.url))),
            result |-> res]
      ELSE LET res2 == Append(res, top.node)
           IN  IF rest = << >> THEN [stack |-> << >>, result |-> res2]
               ELSE LET up == rest[Len(rest)]
                        edge == PushImport(up.node,
                                           NextImport(up.found, Len(up.node.imports)),
                                           top.node.url)
                    IN  Proceed([rest EXCEPT ![Len(rest)].node = edge], res2)

\* `return url` of line 56: the activation below, if any, pushes the edge and
\* goes on
ReturnVisited(stack, res, url) ==
  LET rest == SubSeq(stack, 1, Len(stack) - 1)
  IN  IF rest = << >> THEN [stack |-> << >>, result |-> res]
      ELSE LET up == rest[Len(rest)]
               edge == PushImport(up.node,
                                  NextImport(up.found, Len(up.node.imports)), url)
           IN  Proceed([rest EXCEPT ![Len(rest)].node = edge], res)

\* what the caller of the entry point gets once every root's dfs has resolved
ReturnValue(res) ==
  IF entry = "gatherSourcesAndCanonizeImports"
  THEN stripNodes([k \in 1..Len(res) |-> canonizeFile(res[k])])
  ELSE res

\* sources.forEach(canonizeFile) rewrites the nodes of the array in place
FinalNodes(res) ==
  IF entry = "gatherSourcesAndCanonizeImports"
  THEN [k \in 1..Len(res) |-> canonizeFile(res[k])]
  ELSE res

\* Promise.all and the return of lines 77-79 (and 163-165), after a step that
\* left the roots in status st and the shared array as res
Settle(st, res) ==
  IF pc = "running" /\ \A p \in DOMAIN st : st[p] = "done"
  THEN /\ pc' = "returned"
       /\ returned' = ReturnValue(res)
       /\ result' = FinalNodes(res)
  ELSE /\ UNCHANGED << pc, returned >>
       /\ result' = res

\* the call: roots.map(what => dfs(...)) starts every dfs, each up to line 54
TreeStart ==
  /\ pc = "start"
  /\ entry \in TreeEntries
  /\ stacks' = [p \in 1..Len(roots) |-> << Activation(roots[p], workingDir) >>]
  /\ IF roots = << >>
     THEN pc' = "returned" /\ returned' = ReturnValue(<< >>)
     ELSE pc' = "running" /\ UNCHANGED returned
  /\ UNCHANGED << entry, world, roots, thrown, result, alreadyImported, status,
                  queue, fileData, fetched, errors >>

\* has(url) of line 55
Visited(url) == url \in alreadyImported

\* resolver.resolve of line 54 answers root p's innermost dfs
ResolveDone(p) ==
  /\ entry \in TreeEntries
  /\ pc \in { "running", "failed" }
  /\ status[p] = "running"
  /\ stacks[p] # << >>
  /\ LET stack == stacks[p]
         top == stack[Len(stack)]
         url == ResolverResolve(world, top.uri, top.searchCwd)
     IN  /\ top.at = "resolve"
         /\ IF Visited(url)
            THEN LET r == ReturnVisited(stack, result, url)
                     st == [status EXCEPT ![p] = IF r.stack = << >> THEN "done" ELSE @]
                 IN  /\ stacks' = [stacks EXCEPT ![p] = r.stack]
                     /\ status' = st
                     /\ Settle(st, r.result)
                     /\ UNCHANGED fetched
            ELSE /\ stacks' = [stacks EXCEPT ![p][Len(stack)] =
                                 [top EXCEPT !.at = "require", !.url = url]]
                 /\ fetched' = CountFetch(fetched, url)
                 /\ UNCHANGED << status, pc, returned, result >>
  /\ UNCHANGED << entry, world, roots, thrown, alreadyImported, queue, fileData,
                  errors >>

\* the visited set left as it was: line 61 is skipped
MarkImportedNever(set, url) == set

\* the visited set after the file at url has been fetched (line 61)
MarkImported(set, url) == set \cup { url }

\* the rejection caught and dropped: the root counts as done and the call
\* returns what the other roots collected
RejectRootSwallowed(p, error) ==
  LET st == [status EXCEPT ![p] = "done"]
  IN  /\ stacks' = [stacks EXCEPT ![p] = << >>]
      /\ status' = st
      /\ errors' = Append(errors, [by |-> p, error |-> error])
      /\ Settle(st, result)
      /\ UNCHANGED << alreadyImported, thrown >>

\* resolver.require of line 59 rejects: nothing catches the rejection, so it
\* runs up every await of root p's chain to Promise.all, which rejects the call
\* with the first rejection it sees (lines 59, 69, 77 and 163)
RejectRoot(p, error) ==
  /\ stacks' = [stacks EXCEPT ![p] = << >>]
  /\ status' = [status EXCEPT ![p] = "rejected"]
  /\ errors' = Append(errors, [by |-> p, error |-> error])
  /\ IF pc = "running"
     THEN pc' = "failed" /\ thrown' = error
     ELSE UNCHANGED << pc, thrown >>
  /\ UNCHANGED << alreadyImported, result, returned >>

\* resolver.require of line 59 answers root p's innermost dfs
RequireDone(p) ==
  /\ entry \in TreeEntries
  /\ pc \in { "running", "failed" }
  /\ status[p] = "running"
  /\ stacks[p] # << >>
  /\ LET stack == stacks[p]
         top == stack[Len(stack)]
         got == ResolverRequire(world, top.uri, top.searchCwd)
     IN  /\ top.at = "require"
         /\ IF got.ok
            THEN LET resolvedFile == got.file
                     mine == [top EXCEPT !.at = "imports",
                                         !.found = findImports(resolvedFile),
                                         !.node = FileNode(top.uri, resolvedFile)]
                     r == Proceed([stack EXCEPT ![Len(stack)] = mine], result)
                     st == [status EXCEPT ![p] = IF r.stack = << >> THEN "done" ELSE @]
                 IN  /\ alreadyImported' = MarkImported(alreadyImported, top.url)
                     /\ stacks' = [stacks EXCEPT ![p] = r.stack]
                     /\ status' = st
                     /\ Settle(st, r.result)
                     /\ UNCHANGED << thrown, errors >>
            ELSE RejectRoot(p, got.error)
  /\ UNCHANGED << entry, world, roots, queue, fileData, fetched >>

(***************************************************************************)
(* gatherSources                                                           *)
(***************************************************************************)
RECURSIVE SeedRoots(_, _, _)
\* lines 107-110: every absolute root is queued and then marked, unchecked
SeedRoots(absoluteRoots, q, seen) ==
  IF absoluteRoots = << >> THEN [queue |-> q, alreadyImported |-> seen]
  ELSE LET absWhat == Head(absoluteRoots)
       IN  SeedRoots(Tail(absoluteRoots),
                     Append(q, [cwd |-> workingDir, file |-> absWhat,
                                relativeTo |-> workingDir]),
                     seen \cup { absWhat })

Digit(d) == << "0", "1", "2", "3", "4", "5", "6", "7", "8", "9" >>[d + 1]

RECURSIVE PropertyName(_)
\* the name `for (const i in foundImports)` gives the element at 0-based index k
PropertyName(k) ==
  IF k < 10 THEN << Digit(k) >> ELSE Append(PropertyName(k \div 10), Digit(k % 10))

\* lines 130-135 for the element at 0-based index k, `i` being its property name
ImportName(k, foundImports, relativePath) ==
  LET i == PropertyName(k)
  IN  IF i[1] = "." THEN join(relativePath, i) ELSE foundImports[k + 1]

RECURSIVE EnqueueImportsUnchecked(_, _, _, _, _, _)
\* the loop without the test of line 136: every import is queued, seen or not
EnqueueImportsUnchecked(k, foundImports, relativePath, fileParentDir, q, seen) ==
  IF k >= Len(foundImports) THEN [queue |-> q, alreadyImported |-> seen]
  ELSE EnqueueImportsUnchecked(k + 1, foundImports, relativePath, fileParentDir,
                               Append(q, [cwd |-> fileParentDir,
                                          file |-> foundImports[k + 1],
                                          relativeTo |-> dirname(relativePath)]),
                               seen \cup { ImportName(k, foundImports, relativePath) })

RECURSIVE EnqueueImports(_, _, _, _, _, _)
\* the for loop of lines 129-140 from 0-based index k on
EnqueueImports(k, foundImports, relativePath, fileParentDir, q, seen) ==
  IF k >= Len(foundImports) THEN [queue |-> q, alreadyImported |-> seen]
  ELSE LET importName == ImportName(k, foundImports, relativePath)
       IN  IF importName \notin seen
           THEN EnqueueImports(k + 1, foundImports, relativePath, fileParentDir,
                               Append(q, [cwd |-> fileParentDir,
                                          file |-> foundImports[k + 1],
                                          relativeTo |-> dirname(relativePath)]),
                               seen \cup { importName })
           ELSE EnqueueImports(k + 1, foundImports, relativePath, fileParentDir, q, seen)

\* the reference emitted as it was written, never joined to relativeTo
RelativePathAsWritten(data) == data.file

\* lines 119-126: the locator of the record emitted for a queue entry
RelativePath(data) ==
  IF data.file[1] = "." THEN join(data.relativeTo, data.file) ELSE data.file

\* the entry taken from the back of the queue (pop) where line 112 shifts
FlatNextFromBack(q, res) ==
  IF q = << >>
  THEN /\ pc' = "returned"
       /\ returned' = res
       /\ fileData' = None
       /\ queue' = q
       /\ UNCHANGED fetched
  ELSE /\ pc' = "running"
       /\ UNCHANGED returned
       /\ fileData' = q[Len(q)]
       /\ queue' = SubSeq(q, 1, Len(q) - 1)
       /\ fetched' = CountFetch(fetched, ResolverResolve(world, q[Len(q)].file,
                                                         q[Len(q)].cwd))

\* lines 111-113: take the next entry and call resolver.require for it, or
\* leave the loop and return
FlatNext(q, res) ==
  IF q = << >>
  THEN /\ pc' = "returned"
       /\ returned' = res
       /\ fileData' = None
       /\ queue' = q
       /\ UNCHANGED fetched
  ELSE /\ pc' = "running"
       /\ UNCHANGED returned
       /\ fileData' = Head(q)
       /\ queue' = Tail(q)
       /\ fetched' = CountFetch(fetched, ResolverResolve(world, Head(q).file, Head(q).cwd))

\* the call, up to the first await
FlatStart ==
  /\ pc = "start"
  /\ entry = "gatherSources"
  /\ LET absoluteRoots == [k \in 1..Len(roots) |-> resolve(workingDir, roots[k])]
         seeded == SeedRoots(absoluteRoots, queue, alreadyImported)
     IN  /\ alreadyImported' = seeded.alreadyImported
         /\ FlatNext(seeded.queue, result)
  /\ UNCHANGED << entry, world, roots, thrown, result, stacks, status, errors >>

\* resolver.require of line 113 rejects: the await throws out of the loop and
\* of gatherSources
RejectCall(error) ==
  /\ pc' = "failed"
  /\ thrown' = error
  /\ errors' = Append(errors, [by |-> 0, error |-> error])
  /\ fileData' = None
  /\ UNCHANGED << returned, result, alreadyImported, queue, fetched >>

\* the answer handled as the canonizing entry point would: the record carries
\* the text with every import literal replaced by the locator it resolves to
FlatRequireDoneRewriting ==
  /\ pc = "running"
  /\ entry = "gatherSources"
  /\ fileData # None
  /\ LET got == ResolverRequire(world, fileData.file, fileData.cwd)
     IN  IF got.ok
         THEN LET resolvedFile == got.file
                  foundImports == findImports(resolvedFile)
                  relativePath == RelativePath(fileData)
                  fileParentDir == dirname(resolvedFile.url)
                  edges == [k \in DOMAIN foundImports |->
                              [uri |-> foundImports[k],
                               url |-> ResolverResolve(world, foundImports[k],
                                                       fileParentDir)]]
                  res == Append(result, [url |-> relativePath,
                                         source |-> ReplaceEach(resolvedFile.source, edges),
                                         provider |-> resolvedFile.provider])
                  grown == EnqueueImports(0, foundImports, relativePath, fileParentDir,
                                          queue, alreadyImported)
              IN  /\ result' = res
                  /\ alreadyImported' = grown.alreadyImported
                  /\ FlatNext(grown.queue, res)
                  /\ UNCHANGED << thrown, errors >>
         ELSE RejectCall(got.error)
  /\ UNCHANGED << entry, world, roots, stacks, status >>

\* resolver.require of line 113 answers
FlatRequireDone ==
  /\ pc = "running"
  /\ entry = "gatherSources"
  /\ fileData # None
  /\ LET got == ResolverRequire(world, fileData.file, fileData.cwd)
     IN  IF got.ok
         THEN LET resolvedFile == got.file
                  foundImports == findImports(resolvedFile)
                  relativePath == RelativePath(fileData)
                  res == Append(result, [url |-> relativePath,
                                         source |-> resolvedFile.source,
                                         provider |-> resolvedFile.provider])
                  fileParentDir == dirname(resolvedFile.url)
                  grown == EnqueueImports(0, foundImports, relativePath, fileParentDir,
                                          queue, alreadyImported)
              IN  /\ result' = res
                  /\ alreadyImported' = grown.alreadyImported
                  /\ FlatNext(grown.queue, res)
                  /\ UNCHANGED << thrown, errors >>
         ELSE RejectCall(got.error)
  /\ UNCHANGED << entry, world, roots, stacks, status >>

(***************************************************************************)
(* Specification                                                           *)
(***************************************************************************)
Next ==
  \/ TreeStart
  \/ \E p \in 1..Len(roots) : ResolveDone(p)
  \/ \E p \in 1..Len(roots) : RequireDone(p)
  \/ FlatStart
  \/ FlatRequireDone

Spec == Init /\ [][Next]_vars

(***************************************************************************)
(* canonizeFile as a function of its argument: a node whose text is the    *)
(* import statements of its edges, rewritten once and then once more       *)
(***************************************************************************)
\* the largest number of import edges of a node given to canonizeFile
MaxImports == 2

EdgeUris == { << "c" >>, << ".", "/", "c" >>, << "d" >> }

EdgeUrls == { << "/", "a", "/", "c" >>, << "/", "a", "/", "d" >> }

EdgeLists ==
  UNION { [1..n -> [uri : EdgeUris, url : EdgeUrls]] : n \in 0..MaxImports }

RECURSIVE StatementsOf(_)
StatementsOf(imports) ==
  IF imports = << >> THEN << >>
  ELSE ImportStmt(Head(imports).uri) \o StatementsOf(Tail(imports))

NodeOf(imports) ==
  [uri |-> << "r" >>, imports |-> imports, url |-> << "/", "a", "/", "r" >>,
   source |-> StatementsOf(imports), provider |-> "fs"]

InitCanon ==
  /\ entry = "canonizeFile"
  /\ world = 1
  /\ roots = << >>
  /\ pc = "start"
  /\ returned = None
  /\ thrown = None
  /\ \E imports \in EdgeLists : result = << NodeOf(imports) >>
  /\ alreadyImported = {}
  /\ stacks = << >>
  /\ status = << >>
  /\ queue = << >>
  /\ fileData = None
  /\ fetched = << >>
  /\ errors = << >>

\* sources.forEach(canonizeFile), first pass
CanonizeFirst ==
  /\ entry = "canonizeFile"
  /\ pc = "start"
  /\ pc' = "once"
  /\ result' = [k \in DOMAIN result |-> canonizeFile(result[k])]
  /\ UNCHANGED << entry, world, roots, returned, thrown, alreadyImported, stacks,
                  status, queue, fileData, fetched, errors >>

\* the same pass again on the rewritten nodes; `returned` keeps the records
\* of the first pass
CanonizeSecond ==
  /\ entry = "canonizeFile"
  /\ pc = "once"
  /\ pc' = "twice"
  /\ returned' = stripNodes(result)
  /\ result' = [k \in DOMAIN result |-> canonizeFile(result[k])]
  /\ UNCHANGED << entry, world, roots, thrown, alreadyImported, stacks, status,
                  queue, fileData, fetched, errors >>

NextCanon == CanonizeFirst \/ CanonizeSecond

SpecCanon == InitCanon /\ [][NextCanon]_vars

(***************************************************************************)
(* Vocabulary of the properties                                            *)
(***************************************************************************)
Range(seq) == { seq[k] : k \in DOMAIN seq }

\* the locators the imports of the file at url resolve to
ImportTargets(w, url) ==
  IF Exists(w, url)
  THEN { ResolverResolve(w, lit, dirname(url)) : lit \in Range(findImports(FileAt(w, url))) }
  ELSE {}

RECURSIVE Closure(_, _)
Closure(w, S) ==
  LET T == S \cup UNION { ImportTargets(w, u) : u \in S }
  IN  IF T = S THEN S ELSE Closure(w, T)

\* the canonical locators reachable from the roots
Reachable ==
  Closure(world, { ResolverResolve(world, roots[k], workingDir) : k \in DOMAIN roots })

TreeReturned == entry \in TreeEntries /\ pc = "returned"

\* the number of entries of the sequence of records seq whose url is u
CountUrl(seq, u) == Cardinality({ k \in DOMAIN seq : seq[k].url = u })

UrlA == << "/", "w", "/", "a" >>

UrlB == << "/", "w", "/", "b" >>

(***************************************************************************)
(* C1: in one gatherDepenencyTree call with concurrently traversed roots,  *)
(* resolver.require is invoked exactly once for each canonical locator     *)
(* reachable from the roots, under every interleaving.                     *)
(***************************************************************************)
C1_FetchedExactlyOnce ==
  TreeReturned => \A u \in Reachable : FetchCount(u) = 1

(***************************************************************************)
(* C2: the array gatherDepenencyTree returns holds at most one node per    *)
(* canonical locator, for every root list and every interleaving.          *)
(***************************************************************************)
C2_OneNodePerLocator ==
  TreeReturned => \A u \in Range([k \in DOMAIN returned |-> returned[k].url]) :
                    CountUrl(returned, u) = 1

(***************************************************************************)
(* C3: when A imports B and B imports A, gatherDepenencyTree returns       *)
(* exactly one node for A and exactly one for B, and resolving an import   *)
(* of an already visited file fetches nothing and adds no node.            *)
(***************************************************************************)
C3_CycleOneNodeEach ==
  (TreeReturned /\ Worlds[world] = CycleWorld /\ roots # << >>)
    => /\ CountUrl(returned, UrlA) = 1
       /\ CountUrl(returned, UrlB) = 1
       /\ FetchCount(UrlA) = 1
       /\ FetchCount(UrlB) = 1

(***************************************************************************)
(* C4: every node's imports list carries the import literals of the node's *)
(* own text, in source order and with duplicates, under every interleaving *)
(* of the roots; and within one node the resolution of import k+1 is not   *)
(* started before import k has been pushed: the one dfs a node awaits is   *)
(* the dfs of the import that follows the edges it already holds.          *)
(***************************************************************************)
Uris(imports) == [k \in DOMAIN imports |-> imports[k].uri]

Rewritten == entry = "gatherSourcesAndCanonizeImports" /\ pc = "returned"

C4_ImportsInSourceOrder ==
  entry \in TreeEntries =>
    /\ ~Rewritten => \A k \in DOMAIN result :
                       Uris(result[k].imports) = findImports(result[k])
    /\ \A p \in DOMAIN stacks : \A d \in DOMAIN stacks[p] :
         LET f == stacks[p][d]
         IN  IF f.at = "imports"
             THEN /\ f.found = findImports(f.node)
                  /\ Len(f.node.imports) < Len(f.found)
                  /\ Uris(f.node.imports) = SubSeq(f.found, 1, Len(f.node.imports))
                  /\ d < Len(stacks[p])
                  /\ stacks[p][d + 1].uri = f.found[Len(f.node.imports) + 1]
             ELSE d = Len(stacks[p])

C4_Witness ==
  /\ entry = "gatherDepenencyTree"
  /\ pc = "returned"
  /\ Len(roots) = 2
  /\ roots[1] # roots[2]
  /\ \E k \in DOMAIN returned :
       /\ Len(returned[k].imports) = 2
       /\ returned[k].imports[1].uri # returned[k].imports[2].uri

(***************************************************************************)
(* C5: canonizeFile is idempotent: a second pass over a node that was      *)
(* already rewritten with the same edges leaves its text unchanged.        *)
(***************************************************************************)
C5_SecondPassChangesNothing ==
  (entry = "canonizeFile" /\ pc = "twice") => stripNodes(result) = returned

(***************************************************************************)
(* C6: after gatherSourcesAndCanonizeImports every import literal of every *)
(* node's text has been replaced by the locator of its edge, so the import *)
(* literals of the rewritten text are the edge locators, in order; a file  *)
(* importing the same literal twice ends with both literals replaced.      *)
(***************************************************************************)
Urls(imports) == [k \in DOMAIN imports |-> imports[k].url]

C6_EveryLiteralReplaced ==
  Rewritten => \A k \in DOMAIN result :
                 findImports(result[k]) = Urls(result[k].imports)

(***************************************************************************)
(* C7: in gatherSources, for the root a/b that imports ./c and p/d, the    *)
(* record of the relative import has the locator a/c and the record of the *)
(* other import has the locator p/d, the literal unchanged.                *)
(***************************************************************************)
FlatReturned == entry = "gatherSources" /\ pc = "returned"

RelativeCase ==
  /\ FlatReturned
  /\ Worlds[world] = RelativeWorld
  /\ roots = << << "a", "/", "b" >> >>

\* the record gatherSources returned for the file whose text is source
RecordsOf(source) == { k \in DOMAIN returned : returned[k].source = source }

RelativeCaseLocators(relative, other) ==
  /\ \E k \in RecordsOf(<< "c" >>) : returned[k].url = relative
  /\ \E k \in RecordsOf(<< "d" >>) : returned[k].url = other

\* as claimed: the locator of the relative import is a/c
C7_RelativeLocatorIsRelative ==
  RelativeCase => RelativeCaseLocators(<< "a", "/", "c" >>, << "p", "/", "d" >>)

\* as amended: the locator of the relative import is the literal joined to the
\* directory of the root's absolute locator, /w/a/c for the working directory
\* /w; the three records are the root's, the relative import's and p/d's
C7_RelativeLocatorIsAbsolute ==
  RelativeCase =>
    /\ RelativeCaseLocators(<< "/", "w", "/", "a", "/", "c" >>, << "p", "/", "d" >>)
    /\ Urls(returned) = << resolve(workingDir, << "a", "/", "b" >>),
                           join(dirname(resolve(workingDir, << "a", "/", "b" >>)),
                                << ".", "/", "c" >>),
                           << "p", "/", "d" >> >>

C7_Witness == RelativeCase /\ Len(returned) = 3

(***************************************************************************)
(* C8: the list gatherSources returns holds at most one record per emitted *)
(* locator, also for a root listed twice and for a file reached through    *)
(* two different relative literals.                                        *)
(***************************************************************************)
C8_OneRecordPerLocator ==
  FlatReturned => \A k \in DOMAIN returned : CountUrl(returned, returned[k].url) = 1

(***************************************************************************)
(* C9: in gatherSources the visited key of a relative literal is the       *)
(* literal joined to the importing file's locator, so two files that       *)
(* import the same relative literal from different directories both get    *)
(* their import fetched and emitted: every file reachable from the roots   *)
(* has a record in the returned list.                                      *)
(***************************************************************************)
C9_EveryReachableFileEmitted ==
  FlatReturned => \A u \in Reachable : RecordsOf(FileAt(world, u).source) # {}

(***************************************************************************)
(* C10: when resolver.require fails with NotFound for a reference reached  *)
(* from the roots, the call (gatherDepenencyTree,                          *)
(* gatherSourcesAndCanonizeImports or gatherSources) fails with that very  *)
(* failure, returns no list, and the failed fetch is not tried again.      *)
(***************************************************************************)
C10_FailurePropagates ==
  /\ (pc = "failed") = (errors # << >>)
  /\ errors # << >> =>
       /\ returned = None
       /\ thrown = errors[1].error
       /\ thrown.kind = "NotFound"
       /\ ~Exists(world, ResolverResolve(world, thrown.uri, thrown.cwd))
       /\ \A i, j \in DOMAIN errors : errors[i].by = errors[j].by => i = j
       /\ \A i \in DOMAIN errors :
            errors[i].by \in DOMAIN status => status[errors[i].by] = "rejected"

C10_Witness ==
  /\ pc = "failed"
  /\ Len(result) >= 1
  /\ thrown = [kind |-> "NotFound", uri |-> << ".", "/", "m" >>, cwd |-> << "/", "w" >>]

(***************************************************************************)
(* C11: when one of several concurrently traversed roots fails, the call   *)
(* reports the failure only after all outstanding work of the invocation   *)
(* has settled: once the caller has seen the failure no dfs is suspended   *)
(* or running, so no resolver call is made and no node is pushed for it.   *)
(***************************************************************************)
Outstanding == { p \in DOMAIN stacks : status[p] = "running" /\ stacks[p] # << >> }

C11_FailureAfterAllSettled ==
  (entry \in TreeEntries /\ pc = "failed") => Outstanding = {}

(***************************************************************************)
(* C13: in dfs a canonical locator is marked visited before the fetch of   *)
(* the file is issued: whenever resolver.require has been called for a     *)
(* locator, that locator is in alreadyImported.                            *)
(***************************************************************************)
C13_VisitedBeforeFetch ==
  entry \in TreeEntries => \A u \in DOMAIN fetched : u \in alreadyImported

(***************************************************************************)
(* findImports as a function of its argument: a text made of import        *)
(* statements of the supported forms, each after the first preceded by a   *)
(* separator.  In this specification `queue` holds the statements the text *)
(* is made of and `fileData` the ImportFile given to findImports.          *)
(***************************************************************************)
\* the largest number of import statements of a text given to findImports
MaxStatements == 2

Forms == { "bare", "aliased", "from" }

Quotes == { DQuote, SQuote }

Paths == { << "x" >>, << ".", "/", "y" >> }

\* nothing, a blank (same line) or a line break between two statements
Separators == { << >>, << " " >>, << "\n" >> }

Quoted(s) == << s.quote >> \o s.path \o << s.quote >>

\* one import statement, as the comment of lines 7-12 lists them
StatementText(s) ==
  IF s.form = "bare" THEN kwImport \o << " " >> \o Quoted(s) \o << ";" >>
  ELSE IF s.form = "aliased"
       THEN kwImport \o << " " >> \o Quoted(s) \o << " " >> \o kwAs
              \o << " ", "n", ";" >>
  ELSE kwImport \o << " ", "n", " " >> \o kwFrom \o << " " >> \o Quoted(s)
         \o << ";" >>

RECURSIVE TextOf(_)
TextOf(statements) ==
  IF statements = << >> THEN << >>
  ELSE Head(statements).sep \o StatementText(Head(statements))
         \o TextOf(Tail(statements))

StatementLists ==
  UNION { { l \in [1..n -> [form : Forms, quote : Quotes, path : Paths,
                            sep : Separators]] :
              n >= 1 => l[1].sep = << >> } : n \in 0..MaxStatements }

InitExtract ==
  /\ entry = "findImports"
  /\ world = 1
  /\ roots = << >>
  /\ pc = "start"
  /\ returned = None
  /\ thrown = None
  /\ result = << >>
  /\ alreadyImported = {}
  /\ stacks = << >>
  /\ status = << >>
  /\ queue \in StatementLists
  /\ fileData = File(<< "/", "w", "/", "t" >>, TextOf(queue), "fs")
  /\ fetched = << >>
  /\ errors = << >>

\* findImports(data)
Extract ==
  /\ entry = "findImports"
  /\ pc = "start"
  /\ pc' = "returned"
  /\ returned' = findImports(fileData)
  /\ UNCHANGED << entry, world, roots, thrown, result, alreadyImported, stacks,
                  status, queue, fileData, fetched, errors >>

NextExtract == Extract

SpecExtract == InitExtract /\ [][NextExtract]_vars

(***************************************************************************)
(* C12: for a text made of import statements of the supported forms, in    *)
(* either quote style, findImports returns exactly one entry per           *)
(* statement, the quoted path unmodified, in source order (none for no     *)
(* statement, two for two identical statements), also when several         *)
(* statements stand on the same line.                                      *)
(***************************************************************************)
PathsOf(statements) == [k \in DOMAIN statements |-> statements[k].path]

C12_OneEntryPerStatement ==
  (entry = "findImports" /\ pc = "returned") => returned = PathsOf(queue)

(***************************************************************************)
(* gatherSources under fair scheduling: the synchronous part of the call   *)
(* runs, and every resolver.require that is outstanding is eventually      *)
(* answered.  This is weak fairness of FlatStart and of FlatRequireDone,   *)
(* written out with the guard of each action in the place of ENABLED:      *)
(* both actions change vars whenever their guard holds.                    *)
(***************************************************************************)
FlatStartEnabled == pc = "start" /\ entry = "gatherSources"

FlatRequireOutstanding == pc = "running" /\ entry = "gatherSources" /\ fileData # None

FlatFairness ==
  /\ []<>(~FlatStartEnabled) \/ []<><<FlatStart>>_vars
  /\ []<>(~FlatRequireOutstanding) \/ []<><<FlatRequireDone>>_vars

SpecFair == Spec /\ FlatFairness

\* the roots of the call as line 106 makes them absolute
AbsoluteRoots == { resolve(workingDir, roots[k]) : k \in DOMAIN roots }

\* every import literal written in a file of the file system
Literals == UNION { Range(findImports(f)) : f \in Worlds[world].files }

\* every file a traversal from the roots asks for is there
EveryFetchSucceeds == \A u \in Reachable : Exists(world, u)

\* the entries taken from the queue so far: one per record, and the one whose
\* require is outstanding
Dequeued == Len(result) + (IF fileData = None THEN 0 ELSE 1)

FlatCall == entry = "gatherSources" /\ EveryFetchSucceeds

(***************************************************************************)
(* C14: gatherSources terminates for every finite import graph, cyclic     *)
(* ones included, when every fetch succeeds: the visited keys are root     *)
(* paths and import literals, each key is queued once, so the entries      *)
(* taken from the queue never outnumber the roots plus the distinct keys,  *)
(* and the call eventually returns with the queue empty.                   *)
(***************************************************************************)
C14_FlatTerminates ==
  /\ [](FlatCall =>
          /\ alreadyImported \subseteq AbsoluteRoots \cup Literals
          /\ Dequeued + Len(queue) <= Len(roots) + Cardinality(alreadyImported)
          /\ pc # "failed")
  /\ (FlatCall ~> (pc = "returned" /\ queue = << >>))

\* the cycle a <-> b has been walked from the root a and the call is over
C14_Witness ==
  /\ FlatReturned
  /\ Worlds[world] = CycleWorld
  /\ roots = << << "a" >> >>
  /\ queue = << >>
  /\ Len(returned) = 3

\* what resolver.require answers for the entry gatherSources has taken
FetchedFile == ResolverRequire(world, fileData.file, fileData.cwd)

(***************************************************************************)
(* C15: gatherSources never alters file content: every step that answers   *)
(* a fetch appends exactly one record, whose text and provider are those   *)
(* of the fetched file and which has no other field than the locator; no   *)
(* other step touches the records, and the list returned is these records. *)
(***************************************************************************)
C15_FlatLeavesContent ==
  /\ [](FlatReturned => returned = result)
  /\ [][entry = "gatherSources" =>
          IF pc = "running" /\ fileData # None /\ FetchedFile.ok
          THEN /\ Len(result') = Len(result) + 1
               /\ SubSeq(result', 1, Len(result)) = result
               /\ DOMAIN result'[Len(result')] = { "url", "source", "provider" }
               /\ result'[Len(result')].source = FetchedFile.file.source
               /\ result'[Len(result')].provider = FetchedFile.file.provider
          ELSE result' = result]_vars

\* the nested files have been gathered from /w/a/b, whose text holds two
\* import statements, and from the three files it reaches
C15_Witness ==
  /\ FlatReturned
  /\ Worlds[world] = NestedWorld
  /\ Len(roots) = 1
  /\ Len(returned) >= 4
  /\ findImports(returned[1]) # << >>

\* the dfs activations that have passed the test of line 55 and await the
\* require of line 59: they have not yet reached the add of line 61
AwaitingRequire ==
  UNION { { << p, k >> : k \in { j \in DOMAIN stacks[p] : stacks[p][j].at = "require" } } :
          p \in DOMAIN stacks }

SingleRootTree == entry \in TreeEntries /\ Len(roots) = 1

(***************************************************************************)
(* C16: with a single root, gatherDepenencyTree calls resolver.require at  *)
(* most once per canonical locator and collects at most one node per       *)
(* canonical locator, cycles and diamonds included, and at no time are     *)
(* two dfs activations suspended between the visited test and the insert.  *)
(***************************************************************************)
C16_SingleRootFetchesOnce ==
  SingleRootTree =>
    /\ \A u \in DOMAIN fetched : fetched[u] <= 1
    /\ \A k \in DOMAIN result : CountUrl(result, result[k].url) = 1
    /\ Cardinality(AwaitingRequire) <= 1
    /\ pc = "returned" => \A k \in DOMAIN returned : CountUrl(returned, returned[k].url) = 1

\* the single root a of the cycle a <-> b has been traversed: b's import of a
\* met the visited test, and one dfs awaits nothing any more
C16_Witness ==
  /\ SingleRootTree
  /\ pc = "returned"
  /\ Worlds[world] = CycleWorld
  /\ Len(returned) = 2

\* the locators of the nodes of the array of tree nodes
NodeUrls(nodes) == { nodes[k].url : k \in DOMAIN nodes }

\* the locators the edges of the nodes point to
EdgeTargets(nodes) ==
  UNION { { nodes[k].imports[j].url : j \in DOMAIN nodes[k].imports } : k \in DOMAIN nodes }

(***************************************************************************)
(* C17: when gatherDepenencyTree returns, the tree is closed under its     *)
(* edges: every edge of every collected node points to the locator of a    *)
(* collected node, for every root list and under every interleaving (the   *)
(* resolver's resolve and require agree on the locator of a file).         *)
(***************************************************************************)
C17_TreeClosedUnderEdges ==
  TreeReturned =>
    /\ EdgeTargets(result) \subseteq NodeUrls(result)
    /\ entry = "gatherDepenencyTree" => EdgeTargets(returned) \subseteq NodeUrls(returned)

\* both files of the cycle were roots, traversed concurrently, and the tree
\* that was returned has edges
C17_Witness ==
  /\ TreeReturned
  /\ Worlds[world] = CycleWorld
  /\ Len(roots) = 2
  /\ roots[1] # roots[2]
  /\ EdgeTargets(result) = { UrlA, UrlB }

\* the import graph below the roots has no cycle
Acyclic == \A u \in Reachable : u \notin Closure(world, ImportTargets(world, u))

\* the node at index k of nodes has an edge to t, and a node for t stands
\* before it
Precedes(nodes, t, k) == \E i \in 1..(k - 1) : nodes[i].url = t

(***************************************************************************)
(* C18: with a single root, gatherDepenencyTree appends nodes in DFS       *)
(* post-order.  At every moment each edge of an appended node points to a  *)
(* node appended before it, unless the edge closes a cycle back to a file  *)
(* whose dfs was still running; so in an acyclic import graph the node of  *)
(* every imported file precedes the node of each file importing it; and    *)
(* at the return the root's node is the last one.                          *)
(***************************************************************************)
C18_PostOrder ==
  SingleRootTree =>
    /\ \A k \in DOMAIN result : \A j \in DOMAIN result[k].imports :
         LET t == result[k].imports[j].url
         IN  /\ Precedes(result, t, k) \/ result[k].url \in Closure(world, { t })
             /\ Acyclic => Precedes(result, t, k)
    /\ pc = "returned" =>
         result[Len(result)].url = ResolverResolve(world, roots[1], workingDir)

\* the acyclic nested files have been collected from the root /w/a/b: four
\* nodes, the diamond on /w/a/c included
C18_Witness ==
  /\ SingleRootTree
  /\ pc = "returned"
  /\ Worlds[world] = NestedWorld
  /\ Acyclic
  /\ Len(result) = 4

RECURSIVE SumOver(_, _)
SumOver(f, S) ==
  IF S = {} THEN 0
  ELSE LET u == CHOOSE x \in S : TRUE IN f[u] + SumOver(f, S \ { u })

\* the resolver.require calls made so far
FetchTotal == SumOver(fetched, DOMAIN fetched)

\* the resolver.require calls that have neither answered nor failed yet
FetchesOutstanding == FetchTotal - Len(result) - Len(errors)

\* the queue as it stands after a step, the entry just taken in front
TakenThenQueued == (IF fileData' = None THEN << >> ELSE << fileData' >>) \o queue'

(***************************************************************************)
(* C19: gatherSources emits records in FIFO breadth-first order with at    *)
(* most one fetch outstanding.  The k-th record, for k up to the number    *)
(* of roots, is the k-th root with the locator resolve(workingDir, root);  *)
(* every step takes the entry at the head of the queue and puts what it    *)
(* discovers behind the entries queued before, and the record it appends   *)
(* is the one of the entry whose fetch was outstanding.                    *)
(***************************************************************************)
C19_FlatFifo ==
  /\ [](entry = "gatherSources" =>
          /\ FetchesOutstanding \in { 0, 1 }
          /\ FetchesOutstanding = 1 <=> fileData # None
          /\ \A k \in DOMAIN result :
               k <= Len(roots) => result[k].url = resolve(workingDir, roots[k])
          /\ pc = "returned" => Len(returned) >= Len(roots))
  /\ [][entry = "gatherSources" =>
          /\ Len(TakenThenQueued) >= Len(queue)
          /\ SubSeq(TakenThenQueued, 1, Len(queue)) = queue
          /\ result' # result =>
               /\ fileData # None
               /\ Len(result') = Len(result) + 1
               /\ result'[Len(result')].url
                    \in { fileData.file, join(fileData.relativeTo, fileData.file) }]_vars

\* the roots a and b, which share the import f, have been gathered: the two
\* roots, then f and g, which a's entry discovered
C19_Witness ==
  /\ FlatReturned
  /\ Worlds[world] = SharedWorld
  /\ roots = << << "a" >>, << "b" >> >>
  /\ Len(returned) = 4

====
